---- MODULE Spec2Model ----
(***************************************************************************)
(* A model of mne/fixes.py: the compatibility fallbacks _filtfilt,         *)
(* _firwin2, _in1d, _copysign and the load-time binding of public names.   *)
(*                                                                         *)
(* Numbers.  Array samples and filter coefficients are exact rationals,    *)
(* written <<n, d>> with d > 0 in lowest terms, so that equalities such as *)
(* "the output equals the input constant" are decided by the arithmetic    *)
(* the code performs and not by rounding.                                  *)
(* Arrays.  The signal x of _filtfilt is a 2-D array, a sequence of rows;  *)
(* axis ranges over -2, -1, 0, 1.  Python's None is the empty sequence     *)
(* <<>> and a present optional value v is <<v>>.                           *)
(***************************************************************************)
EXTENDS Integers, Sequences, FiniteSets, TLC

(***************************************************************************)
(* Bounds of the model.                                                    *)
(***************************************************************************)
MaxLen == 7
MaxRows == 2
MaxPadlen == 3
MaxNumtaps == 5
MaxNfreqs == 6
MaxFreqLen == 4
MaxArr == 3
MaxMag == 5
MaxCalls == 3

None == <<>>
Some(v) == <<v>>

(***************************************************************************)
(* Exact rational arithmetic (the values numpy computes in floating point) *)
(***************************************************************************)
Abs(n) == IF n < 0 THEN -n ELSE n

RECURSIVE GCD(_, _)
GCD(m, n) == IF n = 0 THEN m ELSE GCD(n, m % n)

Rat(n, d) ==
    LET g == GCD(Abs(n), Abs(d))
        s == IF d < 0 THEN -1 ELSE 1
    IN  <<(s * n) \div g, (s * d) \div g>>

RInt(n) == <<n, 1>>
RAdd(p, q) == Rat(p[1] * q[2] + q[1] * p[2], p[2] * q[2])
RSub(p, q) == Rat(p[1] * q[2] - q[1] * p[2], p[2] * q[2])
RMul(p, q) == Rat(p[1] * q[1], p[2] * q[2])
RDiv(p, q) == Rat(p[1] * q[2], p[2] * q[1])
RZero == RInt(0)

RECURSIVE RSum(_)
RSum(s) == IF s = <<>> THEN RZero ELSE RAdd(s[1], RSum(Tail(s)))

(***************************************************************************)
(* numpy array primitives on one lane (a 1-D run along the filtered axis)  *)
(* and on 2-D arrays.                                                      *)
(***************************************************************************)
\* a sequence given by a function constructor, as an explicit tuple (each
\* entry is computed once)
AsTuple(s) == s \o <<>>

Reverse(s) == AsTuple([i \in 1..Len(s) |-> s[Len(s) + 1 - i]])

\* Python's s[start:stop] with step 1; start, stop are optional integers,
\* negative ones count from the end, and both are clamped to 0..len(s).
PyIndex(i, n) ==
    LET j == IF i < 0 THEN i + n ELSE i
    IN  IF j < 0 THEN 0 ELSE IF j > n THEN n ELSE j

PySlice(s, start, stop) ==
    LET n  == Len(s)
        lo == IF start = None THEN 0 ELSE PyIndex(start[1], n)
        hi == IF stop = None THEN n ELSE PyIndex(stop[1], n)
    IN  IF hi <= lo THEN <<>> ELSE SubSeq(s, lo + 1, hi)

ndim == 2
NormAxis(axis) == IF axis < 0 THEN axis + ndim ELSE axis

NRows(arr) == Len(arr)
NCols(arr) == Len(arr[1])
Shape(arr) == <<NRows(arr), NCols(arr)>>
\* x.shape[axis]
ShapeAt(arr, axis) == Shape(arr)[NormAxis(axis) + 1]

Transpose(arr) ==
    LET m == AsTuple(arr)
    IN  AsTuple([j \in 1..NCols(m) |-> AsTuple([i \in 1..NRows(m) |-> m[i][j]])])

\* The 1-D runs of arr along axis, and the array rebuilt from such runs.
Lanes(arr, axis) == IF NormAxis(axis) = 1 THEN arr ELSE Transpose(arr)
FromLanes(lanes, axis) == IF NormAxis(axis) = 1 THEN lanes ELSE Transpose(lanes)

\* scipy.signal._arraytools.axis_slice(a, start, stop, axis=axis)
axis_slice(arr, start, stop, axis) ==
    LET lanes == Lanes(arr, axis)
    IN  FromLanes(AsTuple([k \in 1..Len(lanes) |-> PySlice(lanes[k], start, stop)]),
                  axis)

\* scipy.signal._arraytools.axis_reverse(a, axis=axis)
axis_reverse(arr, axis) ==
    LET lanes == Lanes(arr, axis)
    IN  FromLanes(AsTuple([k \in 1..Len(lanes) |-> Reverse(lanes[k])]),
                  axis)

(***************************************************************************)
(* scipy.signal._arraytools extensions (imported at fixes.py:257), one     *)
(* lane at a time; n is the pad length, 0 < n <= Len(s) - 1.               *)
(***************************************************************************)
\* x[n:0:-1] : the n samples after the first, nearest the boundary last
left_ext(s, n) == [k \in 1..n |-> s[n + 2 - k]]
\* x[-2:-(n+2):-1] : the n samples before the last, nearest the boundary first
right_ext(s, n) == [k \in 1..n |-> s[Len(s) - k]]

odd_ext_lane(s, n) ==
    LET l == left_ext(s, n)
        r == right_ext(s, n)
    IN  [k \in 1..n |-> RSub(RMul(RInt(2), s[1]), l[k])]
        \o s \o
        [k \in 1..n |-> RSub(RMul(RInt(2), s[Len(s)]), r[k])]

even_ext_lane(s, n) == left_ext(s, n) \o s \o right_ext(s, n)

const_ext_lane(s, n) ==
    [k \in 1..n |-> s[1]] \o s \o [k \in 1..n |-> s[Len(s)]]

\* odd_ext / even_ext raise ValueError when n > x.shape[axis] - 1
ext_too_big(arr, n, axis) == n > ShapeAt(arr, axis) - 1

odd_ext(arr, n, axis) ==
    IF n < 1 THEN arr
    ELSE LET lanes == Lanes(arr, axis)
         IN  FromLanes(AsTuple([k \in 1..Len(lanes) |-> odd_ext_lane(lanes[k], n)]),
                       axis)

even_ext(arr, n, axis) ==
    IF n < 1 THEN arr
    ELSE LET lanes == Lanes(arr, axis)
         IN  FromLanes(AsTuple([k \in 1..Len(lanes) |-> even_ext_lane(lanes[k], n)]),
                       axis)

const_ext(arr, n, axis) ==
    IF n < 1 THEN arr
    ELSE LET lanes == Lanes(arr, axis)
         IN  FromLanes(AsTuple([k \in 1..Len(lanes) |-> const_ext_lane(lanes[k], n)]),
                       axis)

(***************************************************************************)
(* scipy.signal.lfilter_zi and lfilter (imported at fixes.py:259).         *)
(***************************************************************************)
Max(m, n) == IF m > n THEN m ELSE n

\* pad a coefficient vector with zeros to length n
PadTo(s, n) == [i \in 1..n |-> IF i <= Len(s) THEN s[i] ELSE RZero]

\* b / a[0] and a / a[0], both padded to max(len(a), len(b))
NormB(b, a) == [i \in 1..Max(Len(a), Len(b)) |-> RDiv(PadTo(b, Max(Len(a), Len(b)))[i], a[1])]
NormA(b, a) == [i \in 1..Max(Len(a), Len(b)) |-> RDiv(PadTo(a, Max(Len(a), Len(b)))[i], a[1])]

\* B = b[1:] - a[1:] * b[0]
ZiB(b, a) ==
    [i \in 1..(Max(Len(a), Len(b)) - 1) |->
        RSub(NormB(b, a)[i + 1], RMul(NormA(b, a)[i + 1], NormB(b, a)[1]))]

\* lfilter_zi raises: companion(a) needs len >= 2 (ValueError); the solve of
\* (I - A^T) zi = B is singular exactly when the normalised a sums to 0.
lfilter_zi_err(b, a) ==
    IF Max(Len(a), Len(b)) < 2 THEN "ValueError_companion"
    ELSE IF RSum(NormA(b, a)) = RZero THEN "LinAlgError"
    ELSE "ok"

\* mutant: the filter starts at rest (zero initial state) instead of in the
\* steady state of the step response
lfilter_zi_AtRest(b, a) == [k \in 1..(Max(Len(a), Len(b)) - 1) |-> RZero]

\* the solution of (I - A^T) zi = B, by the explicit formulas:
\* zi[0] = sum(B) / sum(a);  zi[k] = (1 + a[1] + .. + a[k]) * zi[0] - (B[1] + .. + B[k])
lfilter_zi(b, a) ==
    LET n   == Max(Len(a), Len(b))
        zi0 == RDiv(RSum(ZiB(b, a)), RSum(NormA(b, a)))
    IN  [k \in 1..(n - 1) |->
            IF k = 1 THEN zi0
            ELSE RSub(RMul(RSum(SubSeq(NormA(b, a), 1, k)), zi0),
                      RSum(SubSeq(ZiB(b, a), 1, k - 1)))]

\* one sample of the transposed direct form II: <<y[m], next state>>
lfilter_step(bn, an, z, xm) ==
    LET n  == Len(bn)
        ym == IF n > 1 THEN RAdd(RMul(bn[1], xm), z[1]) ELSE RMul(bn[1], xm)
    IN  <<ym,
          [i \in 1..(n - 1) |->
              RAdd(RSub(RMul(bn[i + 1], xm), RMul(an[i + 1], ym)),
                   IF i < n - 1 THEN z[i + 1] ELSE RZero)]>>

RECURSIVE lfilter_run(_, _, _, _, _)
lfilter_run(bn, an, xs, z, acc) ==
    IF xs = <<>> THEN acc
    ELSE LET r == lfilter_step(bn, an, z, xs[1])
         IN  lfilter_run(bn, an, Tail(xs), r[2], Append(acc, r[1]))

\* lfilter(b, a, x, zi=z) on one lane: the output y (the final state zf is
\* discarded by the caller)
lfilter_lane(bn, an, xs, z) == lfilter_run(bn, an, xs, z, <<>>)

\* lfilter(b, a, arr, axis=axis, zi=ziArr)[0]
lfilter(b, a, arr, axis, ziArr) ==
    LET lanes == Lanes(arr, axis)
        zs    == Lanes(ziArr, axis)
        bn    == AsTuple(NormB(b, a))
        an    == AsTuple(NormA(b, a))
    IN  FromLanes(AsTuple([k \in 1..Len(lanes) |->
                               lfilter_lane(bn, an, lanes[k], zs[k])]),
                  axis)

\* np.reshape(zi, zi_shape) with zi_shape = [1] * x.ndim, zi_shape[axis] = zi.size
zi_reshape(zi, axis) ==
    IF NormAxis(axis) = 1 THEN <<zi>> ELSE [i \in 1..Len(zi) |-> <<zi[i]>>]

\* numpy broadcasting product of two 2-D arrays (every dimension equal or 1)
BMul(p, q) ==
    [i \in 1..Max(NRows(p), NRows(q)) |->
        [j \in 1..Max(NCols(p), NCols(q)) |->
            RMul(p[IF NRows(p) = 1 THEN 1 ELSE i][IF NCols(p) = 1 THEN 1 ELSE j],
                 q[IF NRows(q) = 1 THEN 1 ELSE i][IF NCols(q) = 1 THEN 1 ELSE j])]]

(***************************************************************************)
(* State.  One record per routine holds the arguments and locals of the    *)
(* call in progress and its position pc; the module is single-threaded.    *)
(***************************************************************************)
VARIABLES
    ff,      \* _filtfilt
    fw,      \* _firwin2
    in1d,    \* _in1d
    cs,      \* _copysign
    mod      \* the module: the library it was loaded against and its bindings

vars == <<ff, fw, in1d, cs, mod>>

(***************************************************************************)
(* _filtfilt(b, a, x, axis, padtype, padlen)                               *)
(***************************************************************************)
Q(s) == [i \in 1..Len(s) |-> RInt(s[i])]

\* the filters (b, a) the calls are made with
Filters ==
    { <<Q(<<1>>), Q(<<1>>)>>,          \* order 0: lfilter_zi rejects it
      <<Q(<<1, 1>>), Q(<<2>>)>>,       \* two-point average, a[0] = 2
      <<Q(<<4>>), Q(<<2, 2>>)>>,       \* one pole (at -1), unit DC gain, a[0] = 2
      <<Q(<<1, 1>>), Q(<<1>>)>>,       \* two-point sum, DC gain 2
      <<Q(<<1>>), Q(<<1, -1>>)>>,      \* pole at 1: no steady state
      <<Q(<<1, 2, 1>>), Q(<<4, 0>>)>> }  \* three taps, unit DC gain

SignalKinds == {"const", "ramp"}
ConstLevel == RInt(3)

Signal(kind, r, c) ==
    [i \in 1..r |-> [j \in 1..c |->
        IF kind = "const" THEN ConstLevel ELSE RInt(i * j - 2)]]

Signals ==
    { Signal(k, r, c) : k \in SignalKinds, r \in 1..MaxRows, c \in 1..MaxLen }

Axes == {-1, 0}
PadTypes == {"odd", "even", "constant", "None", "bogus"}
PadLens == {None} \cup { Some(n) : n \in -1..MaxPadlen }

IdleFF ==
    [pc |-> "idle", b |-> <<>>, a |-> <<>>, x |-> <<>>, axis |-> -1,
     padtype |-> "odd", padlen_arg |-> None, padlen |-> None,
     ntaps |-> 0, edge |-> 0, ext |-> <<>>, zi |-> <<>>, y |-> <<>>,
     err |-> "none", done |-> <<>>]

Call_filtfilt ==
    /\ ff.pc = "idle"
    /\ UNCHANGED <<fw, in1d, cs, mod>>
    /\ \E f \in Filters, sig \in Signals, ax \in Axes,
          pt \in PadTypes, pl \in PadLens :
          ff' = [IdleFF EXCEPT !.pc = "padtype_check", !.b = f[1], !.a = f[2],
                               !.x = sig, !.axis = ax, !.padtype = pt,
                               !.padlen_arg = pl, !.padlen = pl]

\* mutant: the padtype validation is missing (an unknown padtype falls
\* through to the final else branch of the extension)
CheckPadtype_Skipped ==
    /\ ff.pc = "padtype_check"
    /\ UNCHANGED <<fw, in1d, cs, mod>>
    /\ ff' = [ff EXCEPT !.pc = "pad_len"]

\* lines 335-338
CheckPadtype ==
    /\ ff.pc = "padtype_check"
    /\ UNCHANGED <<fw, in1d, cs, mod>>
    /\ ff' = IF ff.padtype \notin {"even", "odd", "constant", "None"}
             THEN [ff EXCEPT !.pc = "raised", !.err = "ValueError_padtype"]
             ELSE [ff EXCEPT !.pc = "pad_len"]

\* mutant: padlen is not forced to 0 when padtype is None
PadLen_NotForced ==
    /\ ff.pc = "pad_len"
    /\ UNCHANGED <<fw, in1d, cs, mod>>
    /\ LET ntaps == Max(Len(ff.a), Len(ff.b))
           edge  == IF ff.padlen = None THEN ntaps * 3 ELSE ff.padlen[1]
       IN  ff' = [ff EXCEPT !.pc = "length_check", !.ntaps = ntaps, !.edge = edge]

\* lines 344-353
PadLen ==
    /\ ff.pc = "pad_len"
    /\ UNCHANGED <<fw, in1d, cs, mod>>
    /\ LET ntaps  == Max(Len(ff.a), Len(ff.b))
           padlen == IF ff.padtype = "None" THEN Some(0) ELSE ff.padlen
           edge   == IF padlen = None THEN ntaps * 3 ELSE padlen[1]
       IN  ff' = [ff EXCEPT !.pc = "length_check", !.ntaps = ntaps,
                            !.padlen = padlen, !.edge = edge]

\* lines 355-358
CheckLength ==
    /\ ff.pc = "length_check"
    /\ UNCHANGED <<fw, in1d, cs, mod>>
    /\ ff' = IF ShapeAt(ff.x, ff.axis) <= ff.edge
             THEN [ff EXCEPT !.pc = "raised", !.err = "ValueError_length"]
             ELSE [ff EXCEPT !.pc = "extend"]

\* lines 360-370
Extend ==
    /\ ff.pc = "extend"
    /\ UNCHANGED <<fw, in1d, cs, mod>>
    /\ ff' = IF ff.padtype # "None" /\ ff.edge > 0
             THEN IF ff.padtype \in {"even", "odd"}
                     /\ ext_too_big(ff.x, ff.edge, ff.axis)
                  THEN [ff EXCEPT !.pc = "raised", !.err = "ValueError_ext",
                                  !.done = Append(@, "ext")]
                  ELSE [ff EXCEPT !.pc = "lfilter_zi",
                                  !.done = Append(@, "ext"),
                                  !.ext = IF ff.padtype = "even"
                                          THEN even_ext(ff.x, ff.edge, ff.axis)
                                          ELSE IF ff.padtype = "odd"
                                          THEN odd_ext(ff.x, ff.edge, ff.axis)
                                          ELSE const_ext(ff.x, ff.edge, ff.axis)]
             ELSE [ff EXCEPT !.pc = "lfilter_zi", !.ext = ff.x]

\* lines 372-380
LfilterZi ==
    /\ ff.pc = "lfilter_zi"
    /\ UNCHANGED <<fw, in1d, cs, mod>>
    /\ ff' = IF lfilter_zi_err(ff.b, ff.a) # "ok"
             THEN [ff EXCEPT !.pc = "raised", !.err = lfilter_zi_err(ff.b, ff.a),
                             !.done = Append(@, "lfilter_zi")]
             ELSE [ff EXCEPT !.pc = "forward",
                             !.done = Append(@, "lfilter_zi"),
                             !.zi = zi_reshape(lfilter_zi(ff.b, ff.a), ff.axis)]

\* lines 381-384
Forward ==
    /\ ff.pc = "forward"
    /\ UNCHANGED <<fw, in1d, cs, mod>>
    /\ LET x0 == axis_slice(ff.ext, None, Some(1), ff.axis)
       IN  ff' = [ff EXCEPT !.pc = "backward",
                            !.done = Append(@, "lfilter"),
                            !.y = lfilter(ff.b, ff.a, ff.ext, ff.axis,
                                          BMul(ff.zi, x0))]

\* lines 386-389
Backward ==
    /\ ff.pc = "backward"
    /\ UNCHANGED <<fw, in1d, cs, mod>>
    /\ LET y0 == axis_slice(ff.y, Some(-1), None, ff.axis)
       IN  ff' = [ff EXCEPT !.pc = "reverse",
                            !.done = @ \o <<"axis_reverse", "lfilter">>,
                            !.y = lfilter(ff.b, ff.a,
                                          axis_reverse(ff.y, ff.axis), ff.axis,
                                          BMul(ff.zi, y0))]

\* lines 391-392
ReverseY ==
    /\ ff.pc = "reverse"
    /\ UNCHANGED <<fw, in1d, cs, mod>>
    /\ ff' = [ff EXCEPT !.pc = "trim", !.done = Append(@, "axis_reverse"),
                        !.y = axis_reverse(ff.y, ff.axis)]

\* mutant: the trailing trim is off by one (stop = -(edge - 1))
Trim_OffByOne ==
    /\ ff.pc = "trim"
    /\ UNCHANGED <<fw, in1d, cs, mod>>
    /\ ff' = IF ff.edge > 0
             THEN [ff EXCEPT !.pc = "returned", !.done = Append(@, "trim"),
                             !.y = axis_slice(ff.y, Some(ff.edge),
                                              IF ff.edge = 1 THEN None
                                              ELSE Some(1 - ff.edge), ff.axis)]
             ELSE [ff EXCEPT !.pc = "returned"]

\* lines 394-398
Trim ==
    /\ ff.pc = "trim"
    /\ UNCHANGED <<fw, in1d, cs, mod>>
    /\ ff' = IF ff.edge > 0
             THEN [ff EXCEPT !.pc = "returned", !.done = Append(@, "trim"),
                             !.y = axis_slice(ff.y, Some(ff.edge),
                                              Some(0 - ff.edge), ff.axis)]
             ELSE [ff EXCEPT !.pc = "returned"]

NextFiltfilt ==
    \/ Call_filtfilt
    \/ CheckPadtype
    \/ PadLen
    \/ CheckLength
    \/ Extend
    \/ LfilterZi
    \/ Forward
    \/ Backward
    \/ ReverseY
    \/ Trim

(***************************************************************************)
(* Properties of _filtfilt                                                 *)
(***************************************************************************)
ValidPadTypes == {"even", "odd", "constant", "None"}
AfterLengthCheck == {"extend", "lfilter_zi", "forward", "backward", "reverse",
                     "trim", "returned"}
AfterExtend == {"lfilter_zi", "forward", "backward", "reverse", "trim",
                "returned"}
\* the call got past the length check (it may have raised later)
PassedLengthCheck ==
    \/ ff.pc \in AfterLengthCheck
    \/ ff.pc = "raised" /\ ff.err \notin {"ValueError_padtype", "ValueError_length"}

\* the shape of arr with n in place of its extent along axis
ShapeWith(arr, axis, n) == [Shape(arr) EXCEPT ![NormAxis(axis) + 1] = n]

\* the number of samples added at each end by the extension step
Padded == IF ff.padtype # "None" /\ ff.edge > 0 THEN ff.edge ELSE 0

\* C1: whenever _filtfilt returns, the result has exactly the shape of x:
\* the extended buffer has n + 2*edge samples along the axis, both filter
\* passes keep that shape, and the trim leaves n; the other axis is untouched.
C1_ShapePreserved ==
    /\ ff.pc \in AfterExtend =>
          Shape(ff.ext) = ShapeWith(ff.x, ff.axis, ShapeAt(ff.x, ff.axis) + 2 * Padded)
    /\ ff.pc \in {"backward", "reverse", "trim"} => Shape(ff.y) = Shape(ff.ext)
    /\ ff.pc = "returned" => Shape(ff.y) = Shape(ff.x)

C1_Witness ==
    /\ ff.pc = "returned"
    /\ ff.padtype = "odd"
    /\ ff.edge = 3
    /\ Shape(ff.x) = <<2, 5>>
    /\ Shape(ff.ext) = <<2, 11>>
    /\ Shape(ff.y) = <<2, 5>>

\* C2: every call whose effective pad length is >= x.shape[axis] - 1 ends in
\* the signal-too-short ValueError, the boundary edge = x.shape[axis] - 1
\* included.
C2_RaisesAtBoundary ==
    (PassedLengthCheck \/ ff.err = "ValueError_length") /\ ff.edge >= ShapeAt(ff.x, ff.axis) - 1
        => ff.err = "ValueError_length"

\* C3: both validation errors are raised before any computation step has run,
\* and an unknown padtype is reported whatever the length of the signal.
C3_FailFast ==
    /\ ff.err \in {"ValueError_padtype", "ValueError_length"} =>
          ff.pc = "raised" /\ ff.done = <<>> /\ ff.ext = <<>> /\ ff.zi = <<>> /\ ff.y = <<>>
    /\ ff.pc \notin {"idle", "padtype_check"} /\ ff.padtype \notin ValidPadTypes =>
          ff.pc = "raised" /\ ff.err = "ValueError_padtype"

C3_Witness ==
    /\ ff.pc = "raised"
    /\ ff.err = "ValueError_padtype"
    /\ ff.padtype = "bogus"
    /\ ff.padlen_arg = Some(3)
    /\ ShapeAt(ff.x, ff.axis) = 2

\* C4: the effective pad length is 0 when padtype is None (whatever padlen
\* was passed), else 3 * max(len(a), len(b)) when padlen is None, else the
\* padlen passed; that one value decides the length check, the size of the
\* extension and the size of the trim.
EffectivePadLen ==
    IF ff.padtype = "None" THEN 0
    ELSE IF ff.padlen_arg = None THEN 3 * Max(Len(ff.a), Len(ff.b))
    ELSE ff.padlen_arg[1]

C4_EffectivePadLen ==
    /\ PassedLengthCheck \/ ff.pc = "length_check" \/ ff.err = "ValueError_length" =>
          ff.edge = EffectivePadLen
    /\ ff.err = "ValueError_length" => ShapeAt(ff.x, ff.axis) <= EffectivePadLen
    /\ PassedLengthCheck => ShapeAt(ff.x, ff.axis) > EffectivePadLen
    /\ ff.pc \in AfterExtend =>
          ShapeAt(ff.ext, ff.axis) =
             ShapeAt(ff.x, ff.axis)
             + (IF ff.padtype # "None" /\ EffectivePadLen > 0
                THEN 2 * EffectivePadLen ELSE 0)
    /\ ff.pc = "returned" =>
          ShapeAt(ff.y, ff.axis) =
             ShapeAt(ff.ext, ff.axis)
             - (IF EffectivePadLen > 0 THEN 2 * EffectivePadLen ELSE 0)

C4_Witness ==
    /\ ff.pc = "returned"
    /\ ff.padtype = "None"
    /\ ff.padlen_arg = Some(2)
    /\ ff.edge = 0
    /\ ff.ext = ff.x

\* every sample of arr equals c
IsConstant(arr, c) ==
    \A i \in 1..NRows(arr) : \A j \in 1..NCols(arr) : arr[i][j] = c

\* the DC gain sum(b) / sum(a) of the filter
DCGain(b, a) == RDiv(RSum(b), RSum(a))

\* C5 as stated: filtering a constant signal returns the same constant, for
\* every filter (b, a).
C5_ConstantPreserved ==
    ff.pc = "returned" /\ IsConstant(ff.x, ConstLevel) => IsConstant(ff.y, ConstLevel)

\* C5 as amended: filtering the constant signal c returns the constant
\* c * (sum(b) / sum(a))^2 at every sample, which is c itself for every filter
\* of DC gain 1 or -1.
C5_ConstantScaledByDCGain ==
    ff.pc = "returned" /\ IsConstant(ff.x, ConstLevel) =>
        /\ IsConstant(ff.y, RMul(ConstLevel,
                                 RMul(DCGain(ff.b, ff.a), DCGain(ff.b, ff.a))))
        /\ DCGain(ff.b, ff.a) \in {RInt(1), RInt(-1)} => ff.y = ff.x

C5_Witness ==
    /\ ff.pc = "returned"
    /\ IsConstant(ff.x, ConstLevel)
    /\ ff.b = Q(<<4>>)
    /\ ff.a = Q(<<2, 2>>)
    /\ ff.padtype = "odd"
    /\ ff.edge = 2
    /\ ff.y = ff.x

(***************************************************************************)
(* _firwin2(numtaps, freq, gain, nfreqs, window, nyq)                      *)
(*                                                                         *)
(* A frequency is a pair <<g, e>> standing for g * (nyq / NyqGrid) + e*eps *)
(* with eps = np.finfo(float).eps; the caller passes grid points <<g, 0>>. *)
(* freq is the caller's mutable sequence (a list or an ndarray): the       *)
(* parameter is a reference to it, so fw.freq is the caller's object and   *)
(* fw.freq_arg keeps the values it held when the call was made.  The taps  *)
(* themselves are not computed: an array of the design stage is the        *)
(* sequence of the indices of its entries.                                 *)
(***************************************************************************)
NyqGrid == 2
nyq == <<NyqGrid, 0>>

RECURSIVE SeqsUpTo(_, _)
\* the sequences over S of length 0..n
SeqsUpTo(S, n) ==
    IF n = 0 THEN {<<>>}
    ELSE LET shorter == SeqsUpTo(S, n - 1)
         IN  shorter \cup { Append(q, v) : q \in { r \in shorter : Len(r) = n - 1 }, v \in S }

FreqArgs ==
    { [i \in 1..Len(q) |-> <<q[i], 0>>] :
        q \in { r \in SeqsUpTo(0..NyqGrid, MaxFreqLen) : Len(r) >= 2 } }

\* gains of length n: 1 everywhere, or 1 with 0 at the Nyquist rate
GainArgs(n) ==
    { [i \in 1..m |-> IF i = m THEN last ELSE 1] : m \in {n, n + 1}, last \in {0, 1} }

NfreqsArgs == {None} \cup { Some(n) : n \in 1..MaxNfreqs }
WindowArgs == {"hamming", "None"}

IdleFW ==
    [pc |-> "idle", numtaps |-> 0, freq |-> <<>>, freq_arg |-> <<>>,
     gain |-> <<>>, gain_arg |-> <<>>, nfreqs |-> None, window |-> "hamming",
     out |-> <<>>, err |-> "none"]

Call_firwin2 ==
    /\ fw.pc = "idle"
    /\ UNCHANGED <<ff, in1d, cs, mod>>
    /\ \E nt \in 0..MaxNumtaps, fr \in FreqArgs, nf \in NfreqsArgs, w \in WindowArgs :
          \E g \in GainArgs(Len(fr)) :
              fw' = [IdleFW EXCEPT !.pc = "validate", !.numtaps = nt,
                                   !.freq = fr, !.freq_arg = fr,
                                   !.gain = g, !.gain_arg = g,
                                   !.nfreqs = nf, !.window = w]

\* np.diff(freq), in grid steps (the arguments are grid points)
Diff(freq) == [k \in 1..(Len(freq) - 1) |-> freq[k + 1][1] - freq[k][1]]

\* lines 500-518, without the test of lines 503-505
firwin2_error_rest(freq, gain, numtaps) ==
    LET d  == Diff(freq)
        d2 == [k \in 1..(Len(d) - 1) |-> d[k] + d[k + 1]]
    IN  IF freq[1] # <<0, 0>> \/ freq[Len(freq)] # nyq THEN "ValueError_ends"
        ELSE IF \E k \in 1..Len(d) : d[k] < 0 THEN "ValueError_decreasing"
        ELSE IF \E k \in 1..Len(d2) : d2[k] = 0 THEN "ValueError_repeated"
        ELSE IF numtaps % 2 = 0 /\ gain[Len(gain)] # 0 THEN "ValueError_nyquist_gain"
        ELSE "ok"

\* mutant: the test numtaps >= nfreqs (lines 503-505) is missing
firwin2_error_NoNfreqsCheck(freq, gain, numtaps, nfreqs) ==
    IF Len(freq) # Len(gain) THEN "ValueError_length"
    ELSE firwin2_error_rest(freq, gain, numtaps)

\* lines 500-518: the error raised by the validation, or "ok"
firwin2_error(freq, gain, numtaps, nfreqs) ==
    IF Len(freq) # Len(gain) THEN "ValueError_length"
    ELSE IF nfreqs # None /\ numtaps >= nfreqs[1] THEN "ValueError_nfreqs"
    ELSE firwin2_error_rest(freq, gain, numtaps)

Validate_firwin2 ==
    /\ fw.pc = "validate"
    /\ UNCHANGED <<ff, in1d, cs, mod>>
    /\ LET e == firwin2_error(fw.freq, fw.gain, fw.numtaps, fw.nfreqs)
       IN  fw' = IF e # "ok" THEN [fw EXCEPT !.pc = "raised", !.err = e]
                 ELSE [fw EXCEPT !.pc = "mesh"]

RECURSIVE CeilLog2From(_, _)
CeilLog2From(n, k) == IF 2 ^ k >= n THEN k ELSE CeilLog2From(n, k + 1)
\* int(ceil(log(n, 2))) for n >= 1
CeilLog2(n) == CeilLog2From(n, 0)

RECURSIVE TweakFrom(_, _)
\* lines 525-528: the loop from index k on (1-based)
TweakFrom(freq, k) ==
    IF k > Len(freq) THEN freq
    ELSE IF k < Len(freq) /\ freq[k] = freq[k + 1]
         THEN TweakFrom([freq EXCEPT ![k] = <<@[1], @[2] - 1>>,
                                     ![k + 1] = <<@[1], @[2] + 1>>], k + 1)
         ELSE TweakFrom(freq, k + 1)

\* lines 520-528: default mesh size, then the repeated breakpoints are moved
\* apart by eps, in place
Mesh_firwin2 ==
    /\ fw.pc = "mesh"
    /\ UNCHANGED <<ff, in1d, cs, mod>>
    /\ fw' = IF fw.nfreqs = None /\ fw.numtaps <= 0
             THEN [fw EXCEPT !.pc = "raised", !.err = "ValueError_math_domain"]
             ELSE [fw EXCEPT !.pc = "design",
                             !.nfreqs = IF fw.nfreqs = None
                                        THEN Some(1 + 2 ^ CeilLog2(fw.numtaps))
                                        ELSE fw.nfreqs,
                             !.freq = TweakFrom(fw.freq, 1)]

\* numpy.fft.irfft of an m-point half spectrum has 2 * (m - 1) points
irfft_len(m) == 2 * (m - 1)

\* lines 530-553
Design_firwin2 ==
    /\ fw.pc = "design"
    /\ UNCHANGED <<ff, in1d, cs, mod>>
    /\ LET fx2      == [i \in 1..fw.nfreqs[1] |-> i - 1]
           out_full == [i \in 1..irfft_len(Len(fx2)) |-> i - 1]
           head     == PySlice(out_full, None, Some(fw.numtaps))
           wind_len == fw.numtaps
       IN  fw' = IF irfft_len(Len(fx2)) < 1
                 THEN [fw EXCEPT !.pc = "raised", !.err = "ValueError_fft"]
                 ELSE IF fw.window = "None" \/ Len(head) = wind_len
                 THEN [fw EXCEPT !.pc = "returned", !.out = head]
                 ELSE IF Len(head) = 1 \/ wind_len = 1
                 THEN [fw EXCEPT !.pc = "returned",
                                 !.out = [i \in 1..Max(Len(head), wind_len) |-> i - 1]]
                 ELSE [fw EXCEPT !.pc = "raised", !.err = "ValueError_broadcast"]

NextFirwin2 ==
    \/ Call_firwin2
    \/ Validate_firwin2
    \/ Mesh_firwin2
    \/ Design_firwin2

\* C6: for every input that passes the validation, the returned array has
\* exactly numtaps entries: the inverse FFT has 2 * (nfreqs - 1) >= numtaps
\* points, so the slice out_full[:numtaps] is never short.
C6_NumtapsEntries ==
    /\ fw.pc = "design" => irfft_len(fw.nfreqs[1]) >= fw.numtaps
    /\ fw.pc = "returned" =>
          /\ Len(fw.out) = fw.numtaps
          /\ fw.out = [i \in 1..fw.numtaps |-> i - 1]

C6_Witness ==
    /\ fw.pc = "returned"
    /\ fw.numtaps = 5
    /\ fw.nfreqs = Some(9)
    /\ fw.freq_arg = <<<<0, 0>>, <<1, 0>>, <<1, 0>>, <<2, 0>>>>
    /\ Len(fw.out) = 5

\* C10: after any call of _firwin2, returned or raised, the caller's freq
\* and gain hold the values they held before the call.
C10_FreqUnchanged ==
    fw.pc \in {"returned", "raised"} => fw.freq = fw.freq_arg /\ fw.gain = fw.gain_arg

(***************************************************************************)
(* _in1d(ar1, ar2, assume_unique)                                          *)
(***************************************************************************)
Values == {0, 1, 2}
ArrayArgs == SeqsUpTo(Values, MaxArr)

\* the permutations of 1..n, as sequences
Perms(n) == { p \in [1..n -> 1..n] : \A i, j \in 1..n : i # j => p[i] # p[j] }

\* ar.argsort() with the default (unstable) sort: any permutation that sorts ar
SortingPerms(ar) ==
    { p \in Perms(Len(ar)) : \A k \in 1..(Len(ar) - 1) : ar[p[k]] <= ar[p[k + 1]] }

\* perm.argsort() of a permutation: its inverse
Inverse(p) == [i \in 1..Len(p) |-> CHOOSE k \in 1..Len(p) : p[k] = i]

RECURSIVE ArgsortFrom(_, _, _, _)
\* insert the indices i, i+1, .. of ar into the sorted index list order; an
\* index goes after the entries whose keys are <= its key when afterEqual,
\* after those whose keys are < its key otherwise
ArgsortFrom(ar, i, order, afterEqual) ==
    IF i > Len(ar) THEN order
    ELSE LET cnt == Cardinality({ k \in 1..Len(order) :
                        \/ ar[order[k]] < ar[i]
                        \/ afterEqual /\ ar[order[k]] = ar[i] })
         IN  ArgsortFrom(ar, i + 1,
                         SubSeq(order, 1, cnt) \o <<i>> \o SubSeq(order, cnt + 1, Len(order)),
                         afterEqual)

\* mutant: a sort that is not stable (equal keys come out in reverse order)
Argsort_TiesReversed(ar) == ArgsortFrom(ar, 1, <<>>, FALSE)

\* ar.argsort(kind='mergesort'): the stable sorting permutation
StableArgsort(ar) == ArgsortFrom(ar, 1, <<>>, TRUE)

\* aux[flag]: the entries of aux whose flag is set
RECURSIVE Compress(_, _)
Compress(aux, flag) ==
    IF aux = <<>> THEN <<>>
    ELSE IF flag[1] THEN <<aux[1]>> \o Compress(Tail(aux), Tail(flag))
    ELSE Compress(Tail(aux), Tail(flag))

\* flag = np.concatenate(([True], aux[1:] != aux[:-1]))
FirstOfRun(aux) == [i \in 1..Len(aux) |-> i = 1 \/ aux[i] # aux[i - 1]]

\* lines 90-100: _unique(ar, return_inverse=True) with argsort result perm:
\* <<the sorted distinct values, the 0-based index of each ar[i] in them>>
unique_inverse(ar, perm) ==
    LET aux   == [i \in 1..Len(ar) |-> ar[perm[i]]]
        flag  == FirstOfRun(aux)
        iflag == [i \in 1..Len(ar) |->
                     Cardinality({ k \in 1..i : flag[k] }) - 1]
        iperm == Inverse(perm)
    IN  <<Compress(aux, flag), [i \in 1..Len(ar) |-> iflag[iperm[i]]]>>

\* np.unique(ar): the sorted distinct values
np_unique(ar) ==
    LET order == StableArgsort(ar)
        aux   == [i \in 1..Len(ar) |-> ar[order[i]]]
    IN  Compress(aux, FirstOfRun(aux))

IdleIn1d ==
    [pc |-> "idle", ar1_arg |-> <<>>, ar2_arg |-> <<>>, assume_unique |-> FALSE,
     ar1 |-> <<>>, ar2 |-> <<>>, rev_idx |-> <<>>, ar |-> <<>>, order |-> <<>>,
     flag |-> <<>>, indx |-> <<>>, result |-> <<>>]

Call_in1d ==
    /\ in1d.pc = "idle"
    /\ UNCHANGED <<ff, fw, cs, mod>>
    /\ \E a1 \in ArrayArgs, a2 \in ArrayArgs, au \in BOOLEAN :
          in1d' = [IdleIn1d EXCEPT !.pc = "unique", !.ar1_arg = a1, !.ar2_arg = a2,
                                   !.assume_unique = au, !.ar1 = a1, !.ar2 = a2]

\* lines 150-152
Unique_in1d ==
    /\ in1d.pc = "unique"
    /\ UNCHANGED <<ff, fw, cs, mod>>
    /\ IF in1d.assume_unique
       THEN in1d' = [in1d EXCEPT !.pc = "concatenate"]
       ELSE \E perm \in SortingPerms(in1d.ar1) :
               in1d' = [in1d EXCEPT !.pc = "concatenate",
                                    !.ar1 = unique_inverse(in1d.ar1, perm)[1],
                                    !.rev_idx = unique_inverse(in1d.ar1, perm)[2],
                                    !.ar2 = np_unique(in1d.ar2)]

\* lines 153-157
Sort_in1d ==
    /\ in1d.pc = "concatenate"
    /\ UNCHANGED <<ff, fw, cs, mod>>
    /\ in1d' = [in1d EXCEPT !.pc = "flag",
                            !.ar = in1d.ar1 \o in1d.ar2,
                            !.order = StableArgsort(in1d.ar1 \o in1d.ar2)]

\* lines 158-161
Flag_in1d ==
    /\ in1d.pc = "flag"
    /\ UNCHANGED <<ff, fw, cs, mod>>
    /\ LET sar       == [i \in 1..Len(in1d.ar) |-> in1d.ar[in1d.order[i]]]
           equal_adj == [i \in 1..(Len(sar) - 1) |-> sar[i + 1] = sar[i]]
       IN  in1d' = [in1d EXCEPT !.pc = "pick",
                                !.flag = equal_adj \o <<FALSE>>,
                                !.indx = SubSeq(Inverse(in1d.order), 1, Len(in1d.ar1))]

\* lines 163-166
Pick_in1d ==
    /\ in1d.pc = "pick"
    /\ UNCHANGED <<ff, fw, cs, mod>>
    /\ LET picked == [i \in 1..Len(in1d.indx) |-> in1d.flag[in1d.indx[i]]]
       IN  in1d' = [in1d EXCEPT !.pc = "returned",
                                !.result = IF in1d.assume_unique THEN picked
                                           ELSE [i \in 1..Len(in1d.rev_idx) |->
                                                    picked[in1d.rev_idx[i] + 1]]]

NextIn1d ==
    \/ Call_in1d
    \/ Unique_in1d
    \/ Sort_in1d
    \/ Flag_in1d
    \/ Pick_in1d

NoDuplicates(ar) == \A i, j \in 1..Len(ar) : i # j => ar[i] # ar[j]

\* C9: _in1d returns one boolean per entry of ar1, true exactly when that
\* entry occurs in ar2: for arbitrary arrays when assume_unique is False, and
\* for duplicate-free arrays when assume_unique is True.
C9_Membership ==
    in1d.pc = "returned"
    /\ (in1d.assume_unique => NoDuplicates(in1d.ar1_arg) /\ NoDuplicates(in1d.ar2_arg))
    => /\ Len(in1d.result) = Len(in1d.ar1_arg)
       /\ \A i \in 1..Len(in1d.ar1_arg) :
             in1d.result[i] <=> (\E j \in 1..Len(in1d.ar2_arg) :
                                    in1d.ar2_arg[j] = in1d.ar1_arg[i])

C9_Witness ==
    /\ in1d.pc = "returned"
    /\ ~in1d.assume_unique
    /\ in1d.ar1_arg = <<2, 0, 2>>
    /\ in1d.ar2_arg = <<1, 2, 2>>
    /\ in1d.rev_idx = <<1, 0, 1>>
    /\ in1d.result = <<TRUE, FALSE, TRUE>>

(***************************************************************************)
(* _copysign(x1, x2)                                                       *)
(***************************************************************************)
\* np.sign
Sign(n) == IF n > 0 THEN 1 ELSE IF n < 0 THEN -1 ELSE 0

IdleCS == [pc |-> "idle", x1 |-> 0, x2 |-> 0, result |-> 0]

\* line 140
Call_copysign ==
    /\ cs.pc = "idle"
    /\ UNCHANGED <<ff, fw, in1d, mod>>
    /\ \E x1 \in (0 - MaxMag)..MaxMag, x2 \in (0 - MaxMag)..MaxMag :
          cs' = [pc |-> "returned", x1 |-> x1, x2 |-> x2,
                 result |-> Abs(x1) * Sign(x2)]

NextCopysign == Call_copysign

\* C8: the value returned by _copysign(x1, x2) has the magnitude of x1 and
\* the sign of x2, for every x1 and x2, x2 = 0 included.
C8_MagnitudeAndSign ==
    cs.pc = "returned" =>
        /\ Abs(cs.result) = Abs(cs.x1)
        /\ cs.x2 > 0 => cs.result >= 0
        /\ cs.x2 < 0 => cs.result <= 0

(***************************************************************************)
(* The module: capability probes and the binding of the public names.      *)
(*                                                                         *)
(* The library the module is loaded against is the pair of the numpy and   *)
(* scipy releases, each <<major, minor>>; which routines and keywords a    *)
(* release has follows the comments of fixes.py.                           *)
(***************************************************************************)
Libs == { [np |-> <<1, n>>, sp |-> <<0, m>>] : n \in 3..7, m \in 7..11 }

\* one release is older than another
VersionLess(v, w) == v[1] < w[1] \/ (v[1] = w[1] /\ v[2] < w[2])

\* np_version[:2] < (1, 5): np_version is a list (lines 109-115) and the
\* right-hand side a tuple; CPython 2, which the module is written for, orders
\* values of different types by type name, so a list is less than any tuple
ListLessTuple(v, w) == TRUE

\* hasattr(module, name) / a keyword among the arguments of a routine
Has(lib, what) ==
    CASE what = "np.copysign"        -> ~VersionLess(lib.np, <<1, 4>>)
      [] what = "np.in1d"            -> ~VersionLess(lib.np, <<1, 4>>)
      [] what = "np.tril_indices"    -> ~VersionLess(lib.np, <<1, 4>>)
      [] what = "np.count_nonzero"   -> ~VersionLess(lib.np, <<1, 6>>)
      [] what = "np.copy(order)"     -> ~VersionLess(lib.np, <<1, 7>>)
      [] what = "filtfilt(padlen)"   -> ~VersionLess(lib.sp, <<0, 10>>)
      [] what = "scipy.signal.firwin2"            -> ~VersionLess(lib.sp, <<0, 9>>)
      [] what = "sp_linalg.lsqr"                  -> ~VersionLess(lib.sp, <<0, 8>>)
      [] what = "scipy.linalg.solve_triangular"   -> ~VersionLess(lib.sp, <<0, 9>>)
      [] what = "savemat(oned_as)"                -> ~VersionLess(lib.sp, <<0, 8>>)

\* the public names bound by module-level statements
LoadBound == {"unique", "bincount", "copysign", "in1d", "tril_indices",
              "unravel_index", "count_nonzero", "safe_copy", "filtfilt", "firwin2"}
\* the public routines that are plain functions deciding inside their body
CallProbing == {"lsqr", "qr_economic", "savemat"}

Impl(native) == IF native THEN "native" ELSE "fallback"

\* the module-level if/else statements, evaluated against lib
Bindings(lib) ==
    [r \in LoadBound |->
        CASE r = "unique"        -> Impl(~ListLessTuple(lib.np, <<1, 5>>))   \* 117-120
          [] r = "bincount"      -> Impl(~ListLessTuple(lib.np, <<1, 6>>))   \* 132-135
          [] r = "copysign"      -> Impl(Has(lib, "np.copysign"))          \* 142-145
          [] r = "in1d"          -> Impl(Has(lib, "np.in1d"))              \* 168-171
          [] r = "tril_indices"  -> Impl(Has(lib, "np.tril_indices"))      \* 181-184
          [] r = "unravel_index" -> Impl(~ListLessTuple(lib.np, <<1, 4>>))   \* 204-207
          [] r = "count_nonzero" -> Impl(Has(lib, "np.count_nonzero"))     \* 239-243
          [] r = "safe_copy"     -> Impl(~Has(lib, "np.copy(order)"))      \* 246-253
          [] r = "filtfilt"      -> Impl(Has(lib, "filtfilt(padlen)"))     \* 400-402
          [] r = "firwin2"       -> Impl(Has(lib, "scipy.signal.firwin2"))] \* 555-558

NoCall == [routine |-> "none", impl |-> "none"]

Unloaded(lib) ==
    [lib |-> lib, loaded |-> FALSE,
     bound |-> [r \in LoadBound |-> "unbound"],
     probed |-> {}, calls |-> 0, last |-> NoCall]

\* import: every module-level statement runs once
Load ==
    /\ ~mod.loaded
    /\ UNCHANGED <<ff, fw, in1d, cs>>
    /\ mod' = [mod EXCEPT !.loaded = TRUE, !.bound = Bindings(mod.lib)]

\* mutant: a bound name is resolved again at every call
Call_bound_Reprobing ==
    /\ mod.loaded
    /\ mod.calls < MaxCalls
    /\ UNCHANGED <<ff, fw, in1d, cs>>
    /\ \E r \in LoadBound :
          mod' = [mod EXCEPT !.calls = @ + 1,
                             !.probed = @ \cup {r},
                             !.last = [routine |-> r, impl |-> Bindings(mod.lib)[r]]]

\* a call through a name bound at load time: the bound routine runs, the
\* library is not inspected
Call_bound ==
    /\ mod.loaded
    /\ mod.calls < MaxCalls
    /\ UNCHANGED <<ff, fw, in1d, cs>>
    /\ \E r \in LoadBound :
          mod' = [mod EXCEPT !.calls = @ + 1,
                             !.last = [routine |-> r, impl |-> mod.bound[r]]]

\* lines 46-64: hasattr(sp_linalg, 'lsqr') in the body
Call_lsqr ==
    /\ mod.loaded
    /\ mod.calls < MaxCalls
    /\ UNCHANGED <<ff, fw, in1d, cs>>
    /\ mod' = [mod EXCEPT !.calls = @ + 1,
                          !.probed = @ \cup {"lsqr"},
                          !.last = [routine |-> "lsqr",
                                    impl |-> Impl(Has(mod.lib, "sp_linalg.lsqr"))]]

\* lines 210-223: hasattr(scipy.linalg, 'solve_triangular') in the body; both
\* branches call scipy.linalg.qr, with mode='economic' or with econ=True
Call_qr_economic ==
    /\ mod.loaded
    /\ mod.calls < MaxCalls
    /\ UNCHANGED <<ff, fw, in1d, cs>>
    /\ mod' = [mod EXCEPT !.calls = @ + 1,
                          !.probed = @ \cup {"qr_economic"},
                          !.last = [routine |-> "qr_economic",
                                    impl |-> Impl(Has(mod.lib, "scipy.linalg.solve_triangular"))]]

\* lines 226-237: the call with oned_as is tried, and repeated without the
\* keyword when the library raises TypeError
Call_savemat ==
    /\ mod.loaded
    /\ mod.calls < MaxCalls
    /\ UNCHANGED <<ff, fw, in1d, cs>>
    /\ mod' = [mod EXCEPT !.calls = @ + 1,
                          !.probed = @ \cup {"savemat"},
                          !.last = [routine |-> "savemat",
                                    impl |-> Impl(Has(mod.lib, "savemat(oned_as)"))]]

NextModule ==
    \/ Load
    \/ Call_bound
    \/ Call_lsqr
    \/ Call_qr_economic
    \/ Call_savemat

\* C7 as stated: after module initialization no call to a public routine
\* inspects the library again.
C7_NoProbeAfterLoad == mod.loaded => mod.probed = {}

\* C7 as amended: the ten names bound by module-level statements are decided
\* once, at load time: no call through them inspects the library, the binding
\* never changes after the load, and every call runs the bound routine.  Only
\* lsqr, qr_economic and savemat inspect the library, at each of their calls.
C7_LoadTimeBindings ==
    /\ [](mod.loaded =>
            /\ mod.probed \subseteq CallProbing
            /\ mod.last.routine \in LoadBound => mod.last.impl = mod.bound[mod.last.routine]
            /\ mod.last.routine \in CallProbing => mod.last.routine \in mod.probed)
    /\ [][mod.loaded => mod'.bound = mod.bound /\ mod'.loaded]_vars

C7_Witness ==
    /\ mod.loaded
    /\ mod.calls = 3
    /\ mod.probed = {"lsqr"}
    /\ mod.last = [routine |-> "filtfilt", impl |-> "fallback"]
    /\ mod.bound["in1d"] = "native"

(***************************************************************************)
(* Specifications: one per routine, each from the state in which no call   *)
(* is in progress.                                                         *)
(***************************************************************************)
NewestLib == [np |-> <<1, 7>>, sp |-> <<0, 11>>]

Idle ==
    /\ ff = IdleFF
    /\ fw = IdleFW
    /\ in1d = IdleIn1d
    /\ cs = IdleCS

Init == Idle /\ mod = Unloaded(NewestLib)

InitModule == Idle /\ mod \in { Unloaded(lib) : lib \in Libs }

SpecFiltfilt == Init /\ [][NextFiltfilt]_vars

SpecFirwin2 == Init /\ [][NextFirwin2]_vars

SpecIn1d == Init /\ [][NextIn1d]_vars

SpecCopysign == Init /\ [][NextCopysign]_vars

SpecModule == InitModule /\ [][NextModule]_vars

====
